---- MODULE Spec2Model ----
(***************************************************************************)
(* A model of implink-rs (src/src/main.rs): the link creator make_symlink, *)
(* the forced remover rm_rf, the recursive mover move_file_or_directory,   *)
(* the mapping codec (generate_mapping / restore_mapping) and the control  *)
(* flow of main, over an explicit model of a POSIX-like filesystem with    *)
(* symbolic links.                                                         *)
(*                                                                         *)
(* A path is a sequence of names, always absolute (main makes its          *)
(* arguments absolute at lines 396-397).  A filesystem is a function from  *)
(* the physical paths of the entries that exist to their nodes; a node is  *)
(* [k, c] with k the kind ("file", "dir", "link") and c the content of a   *)
(* file or the target path of a link (<<>> for a directory).  A file's     *)
(* content is an opaque token; the initial content of the file created at  *)
(* path p is p itself, which lets a claim speak of "original content".     *)
(***************************************************************************)
EXTENDS Naturals, Sequences, FiniteSets, TLC

VARIABLES
    fs,        \* the filesystem
    fs0,       \* history: the filesystem when the first invocation started
    platform,  \* build target and host: "unix", "windows" (cfg(target_os) in the
               \* source), or "windows_user", Windows without the symlink privilege
    mode,      \* "direct", "move" or "restore": what the first invocation does
    args,      \* the parsed command line: [src, dst, force, junction, gen]
    mapfile,   \* the mapping file on disk: a JSON value, or NoFile
    pc,        \* main's position
    outcome,   \* how the invocation ended: "running", "ok", "error", "panic"
    records,   \* restore_mapping: the records read from the mapping file
    idx,       \* restore_mapping: index of the next record to replay
    log,       \* history: one entry per make_symlink call, over all invocations
    steps,     \* history: the steps of this invocation, each [op, res]
    run,       \* number of the current invocation (1 or 2)
    fsEnd1,    \* history: the filesystem at the end of the first invocation
    mapfile0,  \* history: the mapping file when the first invocation started
    orig       \* codec round trip: the records given to the writer

vars == <<fs, fs0, platform, mode, args, mapfile, pc, outcome, records, idx,
          log, steps, run, fsEnd1, mapfile0, orig>>

(***************************************************************************)
(* Bounds of the model.                                                    *)
(***************************************************************************)
\* How many symbolic links one path lookup follows before it gives up with
\* ELOOP (the kernel's limit is 40; any chain in the model is shorter).
MaxHops == 6
\* Longest mapping file replayed.
MaxRecords == 2
\* Invocations in a row: the second is a restore from the mapping file.
MaxRuns == 2

Names == {"a", "b"}
Top == {<<n>> : n \in Names}
\* The paths given on the command line or in a mapping record.
ReqPaths == Top \cup {<<n, m>> : n \in Names, m \in Names}

(***************************************************************************)
(* The filesystem: nodes and path lookup.                                  *)
(***************************************************************************)
None == [k |-> "none", c |-> <<>>]
Dir == [k |-> "dir", c |-> <<>>]
File(c) == [k |-> "file", c |-> c]
\* A regular file that another process holds open: on Windows it cannot be
\* deleted until it is closed.
Held(c) == [k |-> "file", c |-> c, held |-> TRUE]
IsHeld(n) == "held" \in DOMAIN n
Link(t) == [k |-> "link", c |-> t]

NodeAt(f, q) == IF q \in DOMAIN f THEN f[q] ELSE None

IsPrefix(p, q) == Len(p) <= Len(q) /\ SubSeq(q, 1, Len(p)) = p
StrictPrefix(p, q) == IsPrefix(p, q) /\ p # q

Parent(p) == SubSeq(p, 1, Len(p) - 1)
Last(p) == p[Len(p)]

\* Path resolution as the kernel does it: cur is the physical directory reached,
\* rest the components still to walk.  The last component is followed only when
\* follow is TRUE (stat) and not when it is FALSE (lstat, unlink, rmdir, symlink).
\* The result is [err, at]: at is the physical place of the entry, which may hold
\* nothing.
RECURSIVE Walk(_, _, _, _, _)
Walk(f, cur, rest, follow, hops) ==
    LET q == Append(cur, Head(rest))
        n == NodeAt(f, q)
        more == Tail(rest)
    IN  IF more = <<>>
        THEN IF n.k = "link" /\ follow
             THEN IF hops = 0 \/ n.c = <<>>
                  THEN [err |-> IF hops = 0 THEN "ELOOP" ELSE "ENOENT", at |-> q]
                  ELSE Walk(f, <<>>, n.c, TRUE, hops - 1)
             ELSE [err |-> "ok", at |-> q]
        ELSE CASE n.k = "dir" -> Walk(f, q, more, follow, hops)
               [] n.k = "link" ->
                    IF hops = 0 \/ n.c = <<>>
                    THEN [err |-> IF hops = 0 THEN "ELOOP" ELSE "ENOENT", at |-> q]
                    ELSE Walk(f, <<>>, n.c \o more, follow, hops - 1)
               [] n.k = "file" -> [err |-> "ENOTDIR", at |-> q]
               [] OTHER -> [err |-> "ENOENT", at |-> q]

Lookup(f, p, follow) ==
    IF p = <<>> THEN [err |-> "ENOENT", at |-> <<>>]
    ELSE Walk(f, <<>>, p, follow, MaxHops)

\* stat(2) / lstat(2): [err, at, node], from the lookup l of the path.
StatOf(f, l) ==
    IF l.err # "ok" THEN [err |-> l.err, at |-> l.at, node |-> None]
    ELSE IF NodeAt(f, l.at).k = "none" THEN [err |-> "ENOENT", at |-> l.at, node |-> None]
    ELSE [err |-> "ok", at |-> l.at, node |-> NodeAt(f, l.at)]

Stat(f, p) == StatOf(f, Lookup(f, p, TRUE))
Lstat(f, p) == StatOf(f, Lookup(f, p, FALSE))

\* Path::exists, Path::is_file, Path::is_dir: metadata() follows links, and any
\* error reads as false.
KindOf(s) == IF s.err = "ok" THEN s.node.k ELSE "none"
exists(f, p) == Stat(f, p).err = "ok"
is_file(f, p) == KindOf(Stat(f, p)) = "file"
is_dir(f, p) == KindOf(Stat(f, p)) = "dir"

\* Path::try_exists: Ok(true), Ok(false) for NotFound only, Err otherwise.
ProbeOf(s) ==
    IF s.err = "ok" THEN "true"
    ELSE IF s.err = "ENOENT" THEN "false"
    ELSE "err"
try_exists(f, p) == ProbeOf(Stat(f, p))

\* The physical paths of the entries directly in, and anywhere under, directory d.
ChildrenAt(f, d) == {q \in DOMAIN f : Len(q) = Len(d) + 1 /\ IsPrefix(d, q)}
Under(f, d) == {q \in DOMAIN f : IsPrefix(d, q)}

Without(f, gone) == [q \in (DOMAIN f) \ gone |-> f[q]]
With(f, q, n) == [x \in (DOMAIN f) \cup {q} |-> IF x = q THEN n ELSE f[x]]

Ok(f) == [fs |-> f, err |-> "ok"]
Fail(f, e) == [fs |-> f, err |-> e]

\* std::fs::remove_file = unlink(2): removes a file or a link, never a directory.
\* s is the lstat of the path.
unlink_at(f, s) ==
    IF s.err # "ok" THEN Fail(f, s.err)
    ELSE IF s.node.k = "dir" THEN Fail(f, "EISDIR")
    ELSE IF IsHeld(s.node) THEN Fail(f, "EBUSY")
    ELSE Ok(Without(f, {s.at}))
remove_file(f, p) == unlink_at(f, Lstat(f, p))

\* std::fs::remove_dir = rmdir(2): removes an empty directory only.
rmdir_at(f, s) ==
    IF s.err # "ok" THEN Fail(f, s.err)
    ELSE IF s.node.k # "dir" THEN Fail(f, "ENOTDIR")
    ELSE IF ChildrenAt(f, s.at) # {} THEN Fail(f, "ENOTEMPTY")
    ELSE Ok(Without(f, {s.at}))
remove_dir(f, p) == rmdir_at(f, Lstat(f, p))

\* std::fs::remove_dir_all: lstat first; a link is unlinked, never followed; a
\* directory goes with its whole tree; a regular file at the root is ENOTDIR.
\* A file held open in the tree fails the removal; in the trees of the model
\* such a file is alone in its directory, so nothing is removed before the
\* failure.
remove_tree_at(f, s) ==
    IF s.err # "ok" THEN Fail(f, s.err)
    ELSE IF s.node.k = "link" THEN Ok(Without(f, {s.at}))
    ELSE IF s.node.k = "file" THEN Fail(f, "ENOTDIR")
    ELSE IF \E q \in Under(f, s.at) : IsHeld(f[q]) THEN Fail(f, "EBUSY")
    ELSE Ok(Without(f, Under(f, s.at)))
remove_dir_all(f, p) == remove_tree_at(f, Lstat(f, p))

\* symlink(2): a new link at dst holding the path src as given; the target is
\* not looked at.  Fails when anything, a dangling link included, is at dst.
\* l is the lookup of dst, its last name not followed.
symlink_at(f, src, l) ==
    IF l.err # "ok" THEN Fail(f, l.err)
    ELSE IF NodeAt(f, l.at).k # "none" THEN Fail(f, "EEXIST")
    ELSE Ok(With(f, l.at, Link(src)))
symlink(f, src, dst) == symlink_at(f, src, Lookup(f, dst, FALSE))

\* mkdir(2) of one prefix of create_dir_all: a prefix that is a directory
\* (through links too) is kept, a missing one is made, anything else fails.
mkdir_at(f, isdir, l) ==
    IF isdir THEN Ok(f)
    ELSE IF l.err # "ok" THEN Fail(f, l.err)
    ELSE IF NodeAt(f, l.at).k # "none" THEN Fail(f, "EEXIST")
    ELSE Ok(With(f, l.at, Dir))

\* std::fs::create_dir_all: every missing prefix of p is created in turn.
RECURSIVE MkdirFrom(_, _, _)
MkdirNext(r, p, i) == IF r.err # "ok" THEN r ELSE MkdirFrom(r.fs, p, i + 1)
MkdirFrom(f, p, i) ==
    IF i > Len(p) THEN Ok(f)
    ELSE MkdirNext(mkdir_at(f, is_dir(f, SubSeq(p, 1, i)),
                            Lookup(f, SubSeq(p, 1, i), FALSE)), p, i)

create_dir_all(f, p) == MkdirFrom(f, p, 1)

\* rename(2) of a non-directory: replaces a file or link at dst, fails on a
\* directory there; the same entry on both sides is a successful no-op.
\* s is the lstat of src, d the lookup of dst.
rename_at(f, s, d) ==
    IF s.err # "ok" THEN Fail(f, s.err)
    ELSE IF d.err # "ok" THEN Fail(f, d.err)
    ELSE IF s.at = d.at THEN Ok(f)
    ELSE IF NodeAt(f, d.at).k = "dir" THEN Fail(f, "EISDIR")
    ELSE Ok(With(Without(f, {s.at}), d.at, s.node))
rename(f, src, dst) == rename_at(f, Lstat(f, src), Lookup(f, dst, FALSE))

(***************************************************************************)
(* Forced Remover: rm_rf.                                                  *)
(***************************************************************************)
\* cmd /C del /f /q /s <path>: deletes the file, or every file in the directory
\* and below it; directories and links stay, and so does a file held open.  It
\* deletes nothing when the path does not resolve.  s is the stat of the path.
del_at(f, s) ==
    IF s.err # "ok" THEN f
    ELSE Without(f, {q \in Under(f, s.at) : f[q].k = "file" /\ ~IsHeld(f[q])})
DelCommand(f, p) == del_at(f, Stat(f, p))

\* A variant that removes what a link at dst leads to, not the link.
rm_primary_through(f, dst) ==
    IF is_file(f, dst) THEN remove_file(f, Stat(f, dst).at)
    ELSE remove_dir_all(f, Stat(f, dst).at)

\* The builds for which cfg(target_os = "windows") holds.
IsWindows(plat) == plat \in {"windows", "windows_user"}

\* The removal both builds perform first (lines 197-223): remove_file for what
\* is_file() says is a file, remove_dir_all for the rest.
rm_primary(f, dst) ==
    IF is_file(f, dst) THEN remove_file(f, dst) ELSE remove_dir_all(f, dst)

\* Lines 227-245: on Windows a failed primary removal r is followed by the del
\* command, and the result is Ok as soon as the command could be run, whatever
\* it removed.
rm_fallback(r, dst, plat) ==
    IF r.err # "ok" /\ IsWindows(plat)
    THEN [fs |-> DelCommand(r.fs, dst), err |-> "ok", fallback |-> TRUE]
    ELSE [fs |-> r.fs, err |-> r.err, fallback |-> FALSE]

\* rm_rf: [fs, err, fallback].
rm_rf(f, dst, plat) == rm_fallback(rm_primary(f, dst), dst, plat)

(***************************************************************************)
(* Link Creator: _make_symlink and make_symlink.                           *)
(* A request q is [src, dst, force, junction, plat].                       *)
(***************************************************************************)
\* Which primitive _make_symlink calls (lines 64-80).
LinkPrimitive(f, src, junction, plat) ==
    IF IsWindows(plat)
    THEN IF is_dir(f, src)
         THEN IF junction THEN "junction" ELSE "symlink_dir"
         ELSE "symlink_file"
    ELSE "symlink"

\* A variant with the two paths exchanged.
create_link_reversed(f, q) == symlink(f, q.dst, q.src)

\* symlink_file and symlink_dir need the privilege to create symbolic links,
\* which an ordinary Windows account does not hold; a junction needs none.
Denied(prim, plat) == plat = "windows_user" /\ prim \in {"symlink_file", "symlink_dir"}

\* _make_symlink: every primitive leaves a link at dst that holds src.
create_link(f, q) ==
    IF Denied(LinkPrimitive(f, q.src, q.junction, q.plat), q.plat) THEN Fail(f, "EPERM")
    ELSE symlink(f, q.src, q.dst)

\* One primitive call of make_symlink, as kept in the log: the operation, whether
\* it succeeded, and whether the source existed when it was called.
Event(op, f, src, err) == [op |-> op, ok |-> (err = "ok"), srcExists |-> exists(f, src)]

LinkResult(f, res, calls) == [fs |-> f, res |-> res, calls |-> calls]

\* Lines 321-330: the result c of the second CreateLink, called on f.
after_retry(c, f, q, calls) ==
    LinkResult(c.fs, IF c.err = "ok" THEN "ok" ELSE "LinkFailed",
               Append(calls, Event("CreateLink", f, q.src, c.err)))

\* Lines 306-320: the result r of the rm_rf before the retry, called on f.
after_retry_clear(r, f, q, calls) ==
    IF r.err # "ok"
    THEN LinkResult(r.fs, "LinkFailed", Append(calls, Event("rm_rf", f, q.src, r.err)))
    ELSE after_retry(create_link(r.fs, q), r.fs, q,
                     Append(calls, Event("rm_rf", f, q.src, r.err)))

\* A variant that gives up at the first failure of CreateLink, with force too.
after_create_no_retry(c, f, q, calls) ==
    LinkResult(c.fs, IF c.err = "ok" THEN "ok" ELSE "LinkFailed",
               Append(calls, Event("CreateLink", f, q.src, c.err)))

\* Lines 293-305: the result c of the first CreateLink, called on f.
after_create(c, f, q, calls) ==
    IF c.err = "ok"
    THEN LinkResult(c.fs, "ok", Append(calls, Event("CreateLink", f, q.src, c.err)))
    ELSE IF ~q.force
    THEN LinkResult(c.fs, "LinkFailed", Append(calls, Event("CreateLink", f, q.src, c.err)))
    ELSE after_retry_clear(rm_rf(c.fs, q.dst, q.plat), c.fs, q,
                           Append(calls, Event("CreateLink", f, q.src, c.err)))

\* CreateLink and, with force, the retry after a second rm_rf (lines 292-332).
link_and_retry(f, q, calls) == after_create(create_link(f, q), f, q, calls)

\* A variant that goes on to CreateLink whatever remove_dir returned.
after_remove_dir_unchecked(r, f, q) ==
    link_and_retry(r.fs, q, <<Event("remove_dir", f, q.src, r.err)>>)

\* Lines 279-287: the result r of remove_dir, called on f.
after_remove_dir(r, f, q) ==
    IF r.err # "ok"
    THEN LinkResult(f, "DestinationExists", <<Event("remove_dir", f, q.src, r.err)>>)
    ELSE link_and_retry(r.fs, q, <<Event("remove_dir", f, q.src, r.err)>>)

\* Line 289: the result r of rm_rf is unwrapped, so a failure panics.
after_clear(r, f, q) ==
    IF r.err # "ok"
    THEN LinkResult(r.fs, "panic", <<Event("rm_rf", f, q.src, r.err)>>)
    ELSE link_and_retry(r.fs, q, <<Event("rm_rf", f, q.src, r.err)>>)

\* The Clear step (lines 277-291): without force only remove_dir is tried; with
\* force rm_rf is called.
clear_destination(f, q) ==
    IF ~q.force THEN after_remove_dir(remove_dir(f, q.dst), f, q)
    ELSE after_clear(rm_rf(f, q.dst, q.plat), f, q)

\* A variant that takes a probe that failed for "nothing there".
after_probe_skip(probe, f, q) ==
    IF probe = "err" /\ ~q.force THEN LinkResult(f, "ProbeFailed", <<>>)
    ELSE IF probe = "true" THEN clear_destination(f, q)
    ELSE link_and_retry(f, q, <<>>)

\* Lines 261-291, from the probe of dst.
after_probe(probe, f, q) ==
    IF probe = "err" /\ ~q.force THEN LinkResult(f, "ProbeFailed", <<>>)
    ELSE IF probe # "false" THEN clear_destination(f, q)
    ELSE link_and_retry(f, q, <<>>)

\* make_symlink: [fs, res, calls], res one of "ok", "SourceMissing", "ProbeFailed",
\* "DestinationExists", "LinkFailed" (the Err strings of the source, by the spec's
\* names) or "panic" (the unwrap at line 289).
make_symlink(f, q) ==
    IF ~exists(f, q.src) THEN LinkResult(f, "SourceMissing", <<>>)
    ELSE after_probe(try_exists(f, q.dst), f, q)

Request(src, dst, force, junction, plat) ==
    [src |-> src, dst |-> dst, force |-> force, junction |-> junction, plat |-> plat]

(***************************************************************************)
(* Recursive Mover: move_file_or_directory.                                *)
(***************************************************************************)
\* The names of the entries read_dir lists in directory p (p is followed).
read_dir(f, p) == {Last(q) : q \in ChildrenAt(f, Stat(f, p).at)}

\* fs_extra::file::move_file_with_progress with the default options (no
\* overwrite, no skip_exist): from must be a file, to must not exist; the content
\* is copied to a new regular file at to and from is unlinked.  s is the stat of
\* from, t the lookup of to.
move_file_at(f, from, s, t) ==
    IF s.err # "ok" THEN Fail(f, "NotFound")
    ELSE IF s.node.k # "file" THEN Fail(f, "InvalidFile")
    ELSE IF StatOf(f, t).err = "ok" THEN Fail(f, "AlreadyExists")
    ELSE IF t.err # "ok" THEN Fail(f, t.err)
    ELSE remove_file(With(f, t.at, File(s.node.c)), from)
move_file(f, from, to) == move_file_at(f, from, Stat(f, from), Lookup(f, to, TRUE))

\* Where the entry at q, under the directory at root, goes under the one at t.
Relocated(q, root, t) == t \o SubSeq(q, Len(root) + 1, Len(q))

\* The tree at root (in f) placed at t (in g, where the target directory has been
\* made), and removed from where it was.  The trees of the model hold files and
\* directories only.
place_tree(f, g, root, t) ==
    IF \E q \in Under(f, root) \ {root} : f[q].k # "dir" /\ Relocated(q, root, t) \in DOMAIN g
    THEN Fail(g, "AlreadyExists")
    ELSE Ok([d \in ((DOMAIN g) \ Under(g, root))
                      \cup {Relocated(q, root, t) : q \in Under(f, root) \ {root}} |->
                IF \E q \in Under(f, root) \ {root} : Relocated(q, root, t) = d
                THEN f[CHOOSE q \in Under(f, root) \ {root} : Relocated(q, root, t) = d]
                ELSE g[d]])

\* fs_extra::dir::move_dir_with_progress with the default options: the directory
\* from goes, with its whole tree, to to/<name of from>; a file already there
\* fails the move; from is removed at the end.  s is the stat of from, made the
\* result of creating the target directory.
move_dir_at(f, s, made, target) ==
    IF s.err # "ok" \/ s.node.k # "dir" THEN Fail(f, "NotFound")
    ELSE IF made.err # "ok" THEN made
    ELSE place_tree(f, made.fs, s.at, Stat(made.fs, target).at)
move_dir(f, from, to) ==
    move_dir_at(f, Stat(f, from), create_dir_all(f, Append(to, Last(from))),
                Append(to, Last(from)))

\* A variant that moves the files and leaves the directories where they are.
move_child_files_only(f, src, dst, n) ==
    IF is_dir(f, Append(src, n)) THEN Ok(f)
    ELSE move_file(f, Append(src, n), Append(dst, n))

\* One child of src (lines 147-188): a directory by move_dir, the rest by
\* move_file to dst/<name>.
move_child(f, src, dst, n) ==
    IF is_dir(f, Append(src, n)) THEN move_dir(f, Append(src, n), dst)
    ELSE move_file(f, Append(src, n), Append(dst, n))

\* The loop over the children of src (lines 146-189): the first failure ends the
\* move.
RECURSIVE move_children(_, _, _, _)
move_rest(r, src, dst, names) ==
    IF r.err # "ok" THEN Fail(r.fs, "MoveFailed")
    ELSE move_children(r.fs, src, dst, names)
move_children(f, src, dst, names) ==
    IF names = {} THEN Ok(f)
    ELSE move_rest(move_child(f, src, dst, CHOOSE x \in names : TRUE), src, dst,
                   names \ {CHOOSE x \in names : TRUE})

\* Lines 133-143: dst is removed (r) and created again (c, unwrapped).
recreate(r, c) ==
    IF r.err # "ok" THEN Fail(r.fs, "RemoveFailed")
    ELSE IF c.err # "ok" THEN Fail(c.fs, "panic")
    ELSE Ok(c.fs)

\* Lines 114-124: dst does not exist and is created (r).
created(r) == IF r.err # "ok" THEN Fail(r.fs, "CreateDirFailed") ELSE Ok(r.fs)

\* Lines 114-145: make dst an existing empty directory.  [fs, err], err "ok",
\* "CreateDirFailed", "DestinationNotEmpty", "RemoveFailed" or "panic" (the
\* unwraps of read_dir and create_dir_all).
prepare_destination(f, dst, force) ==
    IF ~exists(f, dst) THEN created(create_dir_all(f, dst))
    ELSE IF ~is_dir(f, dst) THEN Fail(f, "panic")
    ELSE IF read_dir(f, dst) = {} THEN Ok(f)
    ELSE IF ~force THEN Fail(f, "DestinationNotEmpty")
    ELSE recreate(remove_dir_all(f, dst),
                  create_dir_all(remove_dir_all(f, dst).fs, dst))

\* Lines 146-189, from the result p of preparing dst: read_dir of src is
\* unwrapped.
move_into(p, src, dst) ==
    IF p.err # "ok" THEN p
    ELSE IF ~is_dir(p.fs, src) THEN Fail(p.fs, "panic")
    ELSE move_children(p.fs, src, dst, read_dir(p.fs, src))

\* Lines 84-94: the result r of rename.
renamed(f, r) == IF r.err # "ok" THEN Fail(f, "RenameFailed") ELSE Ok(r.fs)

\* move_file_or_directory: [fs, err], err "ok", "RenameFailed", one of
\* prepare_destination's, "MoveFailed", or "panic".
move_file_or_directory(f, src, dst, force) ==
    IF is_file(f, src) THEN renamed(f, rename(f, src, dst))
    ELSE move_into(prepare_destination(f, dst, force), src, dst)

(***************************************************************************)
(* Mapping Codec: the serde data model of Mapping and MappingFile.          *)
(* A String is a sequence of characters; a path prints as "/" before each  *)
(* of its names.  A JSON value is [t, v]: a string, a boolean, an array, or *)
(* an object, which is a sequence of [key, val] members in file order.     *)
(***************************************************************************)
\* PathBuf::to_str and PathBuf::from.
PathToStr(p) == [i \in 1..(2 * Len(p)) |-> IF i % 2 = 1 THEN "/" ELSE p[i \div 2]]
StrToPath(s) == SelectSeq(s, LAMBDA ch : ch # "/")

JStr(s) == [t |-> "str", v |-> s]
JBool(b) == [t |-> "bool", v |-> b]
JArr(xs) == [t |-> "arr", v |-> xs]
JObj(ms) == [t |-> "obj", v |-> ms]
Member(k, v) == [key |-> k, val |-> v]

\* A variant that writes each path under the other's name.
SerializeMapping_swapped(m) ==
    JObj(<<Member("src", JStr(m.dst)), Member("dst", JStr(m.src)),
           Member("force", JBool(m.force)), Member("junction", JBool(m.junction))>>)

\* derive(Serialize): a struct is an object of its fields in declaration order.
SerializeMapping(m) ==
    JObj(<<Member("src", JStr(m.src)), Member("dst", JStr(m.dst)),
           Member("force", JBool(m.force)), Member("junction", JBool(m.junction))>>)

SerializeMappingFile(mf) ==
    JObj(<<Member("mapping",
                  JArr([i \in DOMAIN mf.mapping |-> SerializeMapping(mf.mapping[i])]))>>)

\* derive(Deserialize) of one field: the member of that name must be there once
\* and have the field's type.  Members of other names are skipped.
FieldAt(ms, k) == {i \in DOMAIN ms : ms[i].key = k}
FieldOk(ms, k, t) ==
    /\ Cardinality(FieldAt(ms, k)) = 1
    /\ \A i \in FieldAt(ms, k) : ms[i].val.t = t
FieldVal(ms, k) == ms[CHOOSE i \in FieldAt(ms, k) : TRUE].val.v

MappingOk(j) ==
    /\ j.t = "obj"
    /\ FieldOk(j.v, "src", "str") /\ FieldOk(j.v, "dst", "str")
    /\ FieldOk(j.v, "force", "bool") /\ FieldOk(j.v, "junction", "bool")

DeserializeMapping(j) ==
    [src |-> FieldVal(j.v, "src"), dst |-> FieldVal(j.v, "dst"),
     force |-> FieldVal(j.v, "force"), junction |-> FieldVal(j.v, "junction")]

MappingFileOk(j) ==
    /\ j.t = "obj"
    /\ FieldOk(j.v, "mapping", "arr")
    /\ \A i \in DOMAIN FieldVal(j.v, "mapping") : MappingOk(FieldVal(j.v, "mapping")[i])

\* serde_json::from_str::<MappingFile>: [ok, val].
DeserializeMappingFile(j) ==
    IF MappingFileOk(j)
    THEN [ok |-> TRUE,
          val |-> [mapping |-> [i \in DOMAIN FieldVal(j.v, "mapping") |->
                                   DeserializeMapping(FieldVal(j.v, "mapping")[i])]]]
    ELSE [ok |-> FALSE, val |-> [mapping |-> <<>>]]

\* The file generate_mapping writes (lines 349-359): one record.
generate_mapping(src, dst, force, use_junction) ==
    SerializeMappingFile(
        [mapping |-> <<[src |-> PathToStr(src), dst |-> PathToStr(dst),
                        force |-> force, junction |-> use_junction]>>])

(***************************************************************************)
(* Initial states: a filesystem, a platform, and one invocation of main.   *)
(***************************************************************************)
\* A path at which nothing ever is: the target of a dangling link.
Gone == <<"gone">>

\* What is at a top-level name when the program starts: nothing, a file, an
\* empty directory, a directory holding a file, one holding an empty
\* subdirectory, one holding a file and a subdirectory with a file, or a link
\* (to a file, to a directory, dangling, or looping).
Shapes ==
    {[s |-> k, t |-> <<>>] : k \in {"none", "file", "empty", "flat", "sub", "nested"}}
        \cup {[s |-> "link", t |-> p] : p \in Top \cup {Gone}}

Tree(n, sh) ==
    CASE sh.s = "none" -> <<>>
      [] sh.s = "file" -> (<<n>> :> File(<<n>>))
      [] sh.s = "empty" -> (<<n>> :> Dir)
      [] sh.s = "flat" -> (<<n>> :> Dir) @@ (<<n, "a">> :> File(<<n, "a">>))
      [] sh.s = "sub" -> (<<n>> :> Dir) @@ (<<n, "b">> :> Dir)
      [] sh.s = "nested" ->
            (<<n>> :> Dir) @@ (<<n, "a">> :> File(<<n, "a">>)) @@ (<<n, "b">> :> Dir)
                @@ (<<n, "b", "a">> :> File(<<n, "b", "a">>))
      [] OTHER -> (<<n>> :> Link(sh.t))

InitFS == {Tree("a", x) @@ Tree("b", y) : x \in Shapes, y \in Shapes}

NoFile == [t |-> "nofile", v |-> <<>>]
\* A mapping file that is no JSON object.
Junk == JStr(<<"x">>)

\* The records of the mapping files replayed.
ReplayRecords ==
    [src : {PathToStr(p) : p \in Top}, dst : {PathToStr(p) : p \in ReqPaths},
     force : BOOLEAN, junction : {FALSE}]
ReplayLists == UNION {[1..n -> ReplayRecords] : n \in 0..MaxRecords}

\* Mapping files that differ from what the program writes: a member of an unknown
\* name in the first record or in the top-level object, or the last record
\* without its junction member.
PlainRecords ==
    [src : {PathToStr(<<"a">>)}, dst : {PathToStr(p) : p \in ReqPaths},
     force : {FALSE}, junction : {FALSE}]
PlainLists == UNION {[1..n -> PlainRecords] : n \in 1..MaxRecords}
Extra == Member("comment", JStr(<<"x">>))
RecordsOf(j) == j.v[1].val.v
WithRecords(j, rs) == JObj(<<Member("mapping", JArr(rs))>>)
ExtraInRecord(j) ==
    WithRecords(j, [RecordsOf(j) EXCEPT ![1] = JObj(Append(@.v, Extra))])
ExtraAtTop(j) == JObj(Append(j.v, Extra))
MissingField(j) ==
    LET rs == RecordsOf(j)
    IN  WithRecords(j, [rs EXCEPT ![Len(rs)] = JObj(SubSeq(@.v, 1, 3))])
OddFiles ==
    UNION {{ExtraInRecord(j), ExtraAtTop(j), MissingField(j)} :
              j \in {SerializeMappingFile([mapping |-> l]) : l \in PlainLists}}

ReplayFiles ==
    {SerializeMappingFile([mapping |-> l]) : l \in ReplayLists}
        \cup OddFiles \cup {NoFile, Junk}

NoArgs == [src |-> <<"a">>, dst |-> <<"a">>, force |-> FALSE, junction |-> FALSE,
           gen |-> FALSE]

\* The move is left out of the model when dst lies strictly inside src: what
\* fs_extra does when a directory is moved into itself is not modelled.
InsideAt(s, l) == s.err = "ok" /\ StrictPrefix(s.at, l.at)
InsideSource(f, src, dst) ==
    StrictPrefix(src, dst) \/ InsideAt(Stat(f, src), Lookup(f, dst, TRUE))

Init ==
    /\ fs \in InitFS
    /\ fs0 = fs
    /\ platform \in {"unix", "windows"}
    /\ mode \in {"direct", "move", "restore"}
    /\ IF mode = "restore"
       THEN args = NoArgs /\ mapfile \in ReplayFiles
       ELSE /\ args \in [src : ReqPaths, dst : ReqPaths, force : BOOLEAN,
                         junction : IF IsWindows(platform) THEN BOOLEAN ELSE {FALSE},
                         gen : BOOLEAN]
            /\ mapfile \in IF args.gen THEN {NoFile, Junk} ELSE {NoFile}
            /\ mode = "move" => ~InsideSource(fs, args.src, args.dst)
    /\ pc = CASE mode = "direct" -> "link" [] mode = "move" -> "move" [] OTHER -> "read"
    /\ outcome = "running"
    /\ records = <<>>
    /\ idx = 1
    /\ log = <<>>
    /\ steps = <<>>
    /\ run = 1
    /\ fsEnd1 = <<>>
    /\ mapfile0 = mapfile
    /\ orig = <<>>

(***************************************************************************)
(* main and restore_mapping, step by step.                                 *)
(***************************************************************************)
\* The invocation ends with outcome o and filesystem f.
End(o, f) ==
    /\ pc' = "done"
    /\ outcome' = o
    /\ fsEnd1' = IF run = 1 THEN f ELSE fsEnd1

Going(next) ==
    /\ pc' = next
    /\ UNCHANGED <<outcome, fsEnd1>>

Step(op, res) == steps' = Append(steps, [op |-> op, res |-> res])

\* The request main passes to make_symlink: in move-and-link mode the link goes
\* from the old place to the new one (line 406), otherwise as given (line 423).
LinkSrc == IF mode = "move" THEN args.dst ELSE args.src
LinkDst == IF mode = "move" THEN args.src ELSE args.dst

LogEntry(q, r) ==
    [run |-> run, src |-> q.src, dst |-> q.dst, force |-> q.force,
     junction |-> q.junction, res |-> r.res, calls |-> r.calls,
     before |-> fs, after |-> r.fs]

\* main, lines 399-405.
AfterMove(r) ==
    /\ fs' = r.fs
    /\ Step("move", r.err)
    /\ IF r.err = "ok" THEN Going("link") ELSE End(r.err, r.fs)
MoveStep ==
    /\ pc = "move"
    /\ AfterMove(move_file_or_directory(fs, args.src, args.dst, args.force))
    /\ UNCHANGED <<fs0, platform, mode, args, mapfile, records, idx, log, run,
                   mapfile0, orig>>

\* A variant that goes on to the mapping file whatever the link step returned.
Linked_on(q, r) ==
    /\ fs' = r.fs
    /\ log' = Append(log, LogEntry(q, r))
    /\ Step("link", r.res)
    /\ IF args.gen THEN Going("gen") ELSE End(r.res, r.fs)

\* main, lines 406-412 and 423-429.
Linked(q, r) ==
    /\ fs' = r.fs
    /\ log' = Append(log, LogEntry(q, r))
    /\ Step("link", r.res)
    /\ IF r.res # "ok" THEN End(r.res, r.fs)
       ELSE IF args.gen THEN Going("gen")
       ELSE End("ok", r.fs)
LinkRequest == Request(LinkSrc, LinkDst, args.force, args.junction, platform)
LinkStep ==
    /\ pc = "link"
    /\ Linked(LinkRequest, make_symlink(fs, LinkRequest))
    /\ UNCHANGED <<fs0, platform, mode, args, mapfile, records, idx, run, mapfile0, orig>>

\* A variant that writes the two paths as they were given on the command line.
GenStep_as_given ==
    /\ pc = "gen"
    /\ mapfile' = generate_mapping(args.src, args.dst, args.force, args.junction)
    /\ End("ok", fs)
    /\ Step("gen", "ok")
    /\ UNCHANGED <<fs, fs0, platform, mode, args, records, idx, log, run, mapfile0, orig>>

\* main, lines 413-421 and 430-438.
GenStep ==
    /\ pc = "gen"
    /\ mapfile' = generate_mapping(LinkSrc, LinkDst, args.force, args.junction)
    /\ End("ok", fs)
    /\ Step("gen", "ok")
    /\ UNCHANGED <<fs, fs0, platform, mode, args, records, idx, log, run, mapfile0, orig>>

\* A variant that takes a file it cannot read for one without records.
ReadStep_lenient ==
    /\ pc = "read"
    /\ Going("replay")
    /\ Step("read", "ok")
    /\ records' = DeserializeMappingFile(mapfile).val.mapping
    /\ UNCHANGED <<fs, fs0, platform, mode, args, mapfile, idx, log, run, mapfile0, orig>>

\* restore_mapping, lines 365-366: both results are unwrapped.
ReadStep ==
    /\ pc = "read"
    /\ IF mapfile.t = "nofile" \/ ~DeserializeMappingFile(mapfile).ok
       THEN End("panic", fs) /\ Step("read", "panic") /\ UNCHANGED <<records>>
       ELSE /\ Going("replay")
            /\ Step("read", "ok")
            /\ records' = DeserializeMappingFile(mapfile).val.mapping
    /\ UNCHANGED <<fs, fs0, platform, mode, args, mapfile, idx, log, run, mapfile0, orig>>

\* A variant that goes on to the next record whatever the call returned.
Replayed_on(q, r) ==
    /\ fs' = r.fs
    /\ log' = Append(log, LogEntry(q, r))
    /\ Step("link", r.res)
    /\ Going("replay") /\ idx' = idx + 1

\* restore_mapping, lines 367-377: one turn of the loop.
Replayed(q, r) ==
    /\ fs' = r.fs
    /\ log' = Append(log, LogEntry(q, r))
    /\ Step("link", r.res)
    /\ IF r.res = "ok"
       THEN Going("replay") /\ idx' = idx + 1
       ELSE End(r.res, r.fs) /\ UNCHANGED idx
RecordRequest(m) ==
    Request(StrToPath(m.src), StrToPath(m.dst), m.force, m.junction, platform)
ReplayStep ==
    /\ pc = "replay"
    /\ idx <= Len(records)
    /\ Replayed(RecordRequest(records[idx]),
                make_symlink(fs, RecordRequest(records[idx])))
    /\ UNCHANGED <<fs0, platform, mode, args, mapfile, records, run, mapfile0, orig>>

\* restore_mapping, line 378: the loop is over.
ReplayDone ==
    /\ pc = "replay"
    /\ idx > Len(records)
    /\ End("ok", fs)
    /\ UNCHANGED <<fs, fs0, platform, mode, args, mapfile, records, idx, log, steps, run,
                   mapfile0, orig>>

\* The program is run again with --restore-mapping on the mapping file: after a
\* restore, or after an invocation that wrote the file.
Reinvoke ==
    /\ pc = "done"
    /\ run < MaxRuns
    /\ mapfile.t # "nofile"
    /\ mode = "restore" \/ (steps # <<>> /\ steps[Len(steps)].op = "gen")
    /\ pc' = "read"
    /\ outcome' = "running"
    /\ run' = run + 1
    /\ records' = <<>>
    /\ idx' = 1
    /\ steps' = <<>>
    /\ UNCHANGED <<fs, fs0, platform, mode, args, mapfile, log, fsEnd1, mapfile0, orig>>

Next ==
    \/ MoveStep
    \/ LinkStep
    \/ GenStep
    \/ ReadStep
    \/ ReplayStep
    \/ ReplayDone
    \/ Reinvoke

Spec == Init /\ [][Next]_vars

(***************************************************************************)
(* The codec alone: a list of records is written as a mapping file          *)
(* (serde_json::to_string_pretty of a MappingFile, line 358) and the file   *)
(* is read back by restore_mapping (lines 365-366).                         *)
(***************************************************************************)
CodecRecords ==
    [src : {PathToStr(p) : p \in Top}, dst : {PathToStr(p) : p \in ReqPaths},
     force : BOOLEAN, junction : BOOLEAN]
CodecLists == UNION {[1..n -> CodecRecords] : n \in 0..MaxRecords}

InitCodec ==
    /\ orig \in CodecLists
    /\ mapfile = NoFile
    /\ mapfile0 = NoFile
    /\ pc = "write"
    /\ fs = <<>>
    /\ fs0 = <<>>
    /\ platform = "unix"
    /\ mode = "restore"
    /\ args = NoArgs
    /\ outcome = "running"
    /\ records = <<>>
    /\ idx = 1
    /\ log = <<>>
    /\ steps = <<>>
    /\ run = 1
    /\ fsEnd1 = <<>>

WriteStep ==
    /\ pc = "write"
    /\ mapfile' = SerializeMappingFile([mapping |-> orig])
    /\ pc' = "read"
    /\ UNCHANGED <<fs, fs0, platform, mode, args, outcome, records, idx, log, steps,
                   run, fsEnd1, mapfile0, orig>>

NextCodec ==
    \/ WriteStep
    \/ ReadStep

SpecCodec == InitCodec /\ [][NextCodec]_vars

(***************************************************************************)
(* The link creator on a Windows host that gets in its way: files that     *)
(* another process holds open, and an account that may lack the privilege   *)
(* to create symbolic links.  One invocation of main in direct mode.        *)
(***************************************************************************)
\* At a top-level name: nothing, a file, a file held open, an empty directory,
\* a directory holding a file, one holding a file held open, or a link.
HostShapes ==
    {[s |-> k, t |-> <<>>] : k \in {"none", "file", "held", "empty", "flat", "heldin"}}
        \cup {[s |-> "link", t |-> p] : p \in Top}

HostTree(n, sh) ==
    CASE sh.s = "held" -> (<<n>> :> Held(<<n>>))
      [] sh.s = "heldin" -> (<<n>> :> Dir) @@ (<<n, "a">> :> Held(<<n, "a">>))
      [] OTHER -> Tree(n, sh)

HostFS == {HostTree("a", x) @@ HostTree("b", y) : x \in HostShapes, y \in HostShapes}

InitHost ==
    /\ fs \in HostFS
    /\ fs0 = fs
    /\ platform \in {"windows", "windows_user"}
    /\ mode = "direct"
    /\ args \in [src : ReqPaths, dst : ReqPaths, force : BOOLEAN, junction : BOOLEAN,
                 gen : BOOLEAN]
    /\ mapfile = NoFile
    /\ pc = "link"
    /\ outcome = "running"
    /\ records = <<>>
    /\ idx = 1
    /\ log = <<>>
    /\ steps = <<>>
    /\ run = 1
    /\ fsEnd1 = <<>>
    /\ mapfile0 = mapfile
    /\ orig = <<>>

NextHost ==
    \/ LinkStep
    \/ GenStep

SpecHost == InitHost /\ [][NextHost]_vars

(***************************************************************************)
(* What the claims speak of.                                               *)
(***************************************************************************)
\* The entry at path p of filesystem f (a file, or a directory with its tree) is
\* still there in g, with its content.
SameEntry(f, g, p) ==
    /\ Lstat(g, p).err = "ok"
    /\ Lstat(g, p).at = Lstat(f, p).at
    /\ \A q \in Under(f, Lstat(f, p).at) : q \in DOMAIN g /\ g[q] = f[q]

\* The entry itself (not what a link at p leads to) is a file or a directory.
IsFileOrDir(f, p) == Lstat(f, p).err = "ok" /\ Lstat(f, p).node.k \in {"file", "dir"}

\* p is a link that leads to the entry src names, which exists.
ResolvesTo(f, p, src) ==
    /\ Lstat(f, p).err = "ok"
    /\ Lstat(f, p).node = Link(src)
    /\ Stat(f, src).err = "ok"
    /\ Stat(f, p) = Stat(f, src)

\* A destination in the way: a file, a non-empty directory, or a broken link.
Conflicting(f, p) ==
    /\ Lstat(f, p).err = "ok"
    /\ \/ Lstat(f, p).node.k = "file"
       \/ Lstat(f, p).node.k = "dir" /\ ChildrenAt(f, Lstat(f, p).at) # {}
       \/ Lstat(f, p).node.k = "link" /\ ~exists(f, p)

\* C1: link(p, p, force, _) on an existing file or directory p leaves the entry
\* at p in place with its content, whatever the call returns.
C1_SourceSurvives ==
    \A i \in DOMAIN log :
        (log[i].src = log[i].dst /\ IsFileOrDir(log[i].before, log[i].src))
            => SameEntry(log[i].before, log[i].after, log[i].src)

\* C2: with force, an existing source and a conflicting destination (a file, a
\* non-empty directory or a broken link), link succeeds and leaves destination a
\* link that resolves to source.
C2_ForceReplaces ==
    \A i \in DOMAIN log :
        (log[i].force /\ exists(log[i].before, log[i].src)
                      /\ Conflicting(log[i].before, log[i].dst))
            => (log[i].res = "ok" /\ ResolvesTo(log[i].after, log[i].dst, log[i].src))

HasCall(e, op) == \E k \in DOMAIN e.calls : e.calls[k].op = op

\* The entry at p is a directory with nothing in it.
EmptyDirAt(f, p) ==
    /\ Lstat(f, p).err = "ok"
    /\ Lstat(f, p).node.k = "dir"
    /\ ChildrenAt(f, Lstat(f, p).at) = {}

\* What the claim says of one call e without force whose destination exists: an
\* empty directory is removed and CreateLink is called; anything else fails with
\* DestinationExists and CreateLink is not called.
ClearedOrRefused(e) ==
    IF EmptyDirAt(e.before, e.dst)
    THEN /\ Len(e.calls) >= 2
         /\ e.calls[1] = [op |-> "remove_dir", ok |-> TRUE, srcExists |-> TRUE]
         /\ e.calls[2].op = "CreateLink"
         /\ ~EmptyDirAt(e.after, e.dst)
    ELSE /\ e.res = "DestinationExists"
         /\ ~HasCall(e, "CreateLink")

\* C3 as stated: for every call without force whose destination exists.
C3_AsStated ==
    \A i \in DOMAIN log :
        (~log[i].force /\ try_exists(log[i].before, log[i].dst) = "true")
            => ClearedOrRefused(log[i])

\* C3, amended: for every call without force whose source exists and whose
\* destination exists, an empty directory at destination is removed and
\* CreateLink is called; any other destination makes link fail with
\* DestinationExists without CreateLink being called.
C3_ClearWithoutForce ==
    \A i \in DOMAIN log :
        (~log[i].force /\ exists(log[i].before, log[i].src)
                       /\ try_exists(log[i].before, log[i].dst) = "true")
            => ClearedOrRefused(log[i])

\* Both cases of C3 in one replay: an empty directory cleared and linked over,
\* then a file refused.
C3_Witness ==
    \E i, j \in DOMAIN log :
        /\ ~log[i].force /\ exists(log[i].before, log[i].src)
        /\ EmptyDirAt(log[i].before, log[i].dst) /\ log[i].res = "ok"
        /\ ~log[j].force /\ exists(log[j].before, log[j].src)
        /\ is_file(log[j].before, log[j].dst) /\ log[j].res = "DestinationExists"

\* What the claim says of one call e: it succeeds, destination is a link that
\* resolves to the source file, and the source is as it was.
LinkedToFile(e) ==
    /\ e.res = "ok"
    /\ ResolvesTo(e.after, e.dst, e.src)
    /\ Stat(e.after, e.dst).node = Stat(e.before, e.src).node
    /\ Lstat(e.after, e.src) = Lstat(e.before, e.src)
    /\ Stat(e.after, e.src) = Stat(e.before, e.src)

\* C4 as stated: for every existing file f and every path d with nothing at it.
C4_AsStated ==
    \A i \in DOMAIN log :
        (~log[i].force /\ is_file(log[i].before, log[i].src)
                       /\ Lstat(log[i].before, log[i].dst).err # "ok")
            => LinkedToFile(log[i])

\* C4, amended: for every existing file f and every path d at which nothing
\* exists and whose parent directory exists, link(f, d, force=false, _) succeeds,
\* d is then a link that resolves to f's content, and f is unchanged.
C4_LinkFileToNewPath ==
    \A i \in DOMAIN log :
        (~log[i].force /\ is_file(log[i].before, log[i].src)
                       /\ Lookup(log[i].before, log[i].dst, FALSE).err = "ok"
                       /\ Lstat(log[i].before, log[i].dst).err # "ok")
            => LinkedToFile(log[i])

\* A file linked at a new path inside an existing directory.
C4_Witness ==
    \E i \in DOMAIN log :
        /\ ~log[i].force /\ is_file(log[i].before, log[i].src)
        /\ Len(log[i].dst) = 2
        /\ Lstat(log[i].before, log[i].dst).err # "ok"
        /\ log[i].res = "ok"
        /\ is_file(log[i].after, log[i].dst)

\* A directory that holds at least one file and one non-empty subdirectory.
NestedDir(f, p) ==
    /\ Lstat(f, p).err = "ok" /\ Lstat(f, p).node.k = "dir"
    /\ \E q \in ChildrenAt(f, Lstat(f, p).at) : f[q].k = "file"
    /\ \E q \in ChildrenAt(f, Lstat(f, p).at) : f[q].k = "dir" /\ ChildrenAt(f, q) # {}

\* The tree below root: every entry with its path relative to root.
TreeAt(f, root) ==
    {<<SubSeq(q, Len(root) + 1, Len(q)), f[q]>> : q \in Under(f, root) \ {root}}

\* The first invocation was a move-and-link and its move and link steps are over.
MoveAndLinkEnded == mode = "move" /\ run = 1 /\ pc \in {"gen", "done"}

\* B (args.dst) holds the tree A (args.src) had at the start, and A is a symbolic
\* link that points to B.
MovedAndLinked ==
    /\ Stat(fs, args.dst).err = "ok"
    /\ Stat(fs, args.dst).node.k = "dir"
    /\ TreeAt(fs, Stat(fs, args.dst).at) = TreeAt(fs0, Lstat(fs0, args.src).at)
    /\ Lstat(fs, args.src).err = "ok"
    /\ Lstat(fs, args.src).node = Link(args.dst)

InThisRun(e) == e.run = run
Calls == SelectSeq(log, InThisRun)

\* The records of the mapping file as they stand in the file's JSON text.
FileRecords == FieldVal(mapfile.v, "mapping")
FileField(k, name) == FieldVal(FileRecords[k].v, name)

\* Call e was made for the k-th record of the file.
CallOfRecord(e, k) ==
    /\ e.src = StrToPath(FileField(k, "src"))
    /\ e.dst = StrToPath(FileField(k, "dst"))
    /\ e.force = FileField(k, "force")
    /\ e.junction = FileField(k, "junction")

\* The current invocation is a replay whose mapping file was read.
Replaying == steps # <<>> /\ steps[1] = [op |-> "read", res |-> "ok"]

\* C6: a replay calls the Link Creator for the records in file order, once per
\* record; no record is attempted after one that failed; the replay ends at the
\* first failure with that error, or after the last record; and the filesystem
\* is handed from call to call and left as the last call left it (nothing is
\* undone).
C6_ReplayInOrder ==
    Replaying =>
        /\ Len(Calls) <= Len(FileRecords)
        /\ \A k \in DOMAIN Calls : CallOfRecord(Calls[k], k)
        /\ \A k \in DOMAIN Calls : k < Len(Calls) => Calls[k].res = "ok"
        /\ \A k \in DOMAIN Calls :
               k < Len(Calls) => Calls[k + 1].before = Calls[k].after
        /\ Calls # <<>> => fs = Calls[Len(Calls)].after
        /\ (Calls # <<>> /\ Calls[Len(Calls)].res # "ok")
               => (pc = "done" /\ outcome = Calls[Len(Calls)].res)
        /\ (pc = "done" /\ outcome = "ok")
               => (Len(Calls) = Len(FileRecords)
                   /\ \A k \in DOMAIN Calls : Calls[k].res = "ok")

\* A second replay of a file of two records that ends at its first record, after
\* a first replay that ended at its second and left the link of its first.
C6_Witness ==
    /\ Replaying /\ pc = "done" /\ run = 2
    /\ Len(FileRecords) = 2 /\ Len(Calls) = 1 /\ Calls[1].res # "ok"
    /\ \E i, j \in DOMAIN log :
           /\ i < j /\ log[i].run = 1 /\ log[j].run = 1
           /\ log[i].res = "ok" /\ log[j].res # "ok"
           /\ Lstat(fsEnd1, log[i].dst).err = "ok"
           /\ Lstat(fsEnd1, log[i].dst).node = Link(log[i].src)

\* The mapping file has been replayed twice in a row and the second replay is
\* over.
ReplayedTwice == mode = "restore" /\ run = 2 /\ pc = "done"
AllForced == \A k \in DOMAIN records : records[k].force

\* C7 as stated: for every mapping file whose records all have force=true, the
\* second replay leaves the filesystem as the first replay left it.
C7_AsStated == (ReplayedTwice /\ AllForced) => fs = fsEnd1

\* C7, amended: for every mapping file that holds one record, with force=true,
\* and every starting filesystem state, replaying the file a second time
\* immediately after the first replay leaves the filesystem in the same state
\* as it was after the first replay.
C7_ReplayIdempotent ==
    (ReplayedTwice /\ AllForced /\ Len(records) <= 1) => fs = fsEnd1

\* A second replay of one forced record that cleared the link of the first
\* replay and made it again.
C7_Witness ==
    /\ ReplayedTwice /\ AllForced /\ Len(records) = 1
    /\ Len(Calls) = 1 /\ Calls[1].res = "ok"
    /\ HasCall(Calls[1], "rm_rf")
    /\ Calls[1].before = fsEnd1
    /\ fs = fsEnd1
    /\ fsEnd1 # fs0

\* The steps of a link or move-and-link invocation, in the order main takes them.
StepOrder == IF mode = "move" THEN <<"move", "link", "gen">> ELSE <<"link", "gen">>

\* C8: in one invocation the steps run in the order move (move-and-link mode
\* only), link, mapping generation; a step that fails is the last one and its
\* error is the outcome of the invocation; the mapping file is written only
\* after a link step that returned success, itself attempted only after a move
\* step that returned success.
C8_NoStepAfterFailure ==
    (run = 1 /\ mode \in {"direct", "move"}) =>
        /\ Len(steps) <= Len(StepOrder)
        /\ \A i \in DOMAIN steps : steps[i].op = StepOrder[i]
        /\ \A i \in DOMAIN steps : i < Len(steps) => steps[i].res = "ok"
        /\ (steps # <<>> /\ steps[Len(steps)].res # "ok")
               => (pc = "done" /\ outcome = steps[Len(steps)].res)
        /\ mapfile # mapfile0
               => \E i \in DOMAIN steps :
                      /\ steps[i].op = "gen"
                      /\ i > 1 /\ steps[i - 1] = [op |-> "link", res |-> "ok"]

\* A move-and-link invocation, asked to write a mapping file, ended by the
\* failure of its link step after a move that succeeded: no mapping file.
C8_Witness ==
    /\ run = 1 /\ mode = "move" /\ args.gen /\ pc = "done"
    /\ args.src # args.dst
    /\ Len(steps) = 2
    /\ steps[1] = [op |-> "move", res |-> "ok"]
    /\ steps[2].op = "link" /\ steps[2].res # "ok"
    /\ outcome = steps[2].res
    /\ mapfile = mapfile0

\* C9: a list of records written to a mapping file and read back is the list
\* that was written, element by element and in the same order.
C9_RoundTrip == (pc = "replay" /\ mapfile # NoFile) => records = orig

\* Two different records, one of them a junction, written and read back.
C9_Witness ==
    /\ pc = "replay" /\ steps = <<[op |-> "read", res |-> "ok"]>>
    /\ Len(orig) = 2 /\ orig[1] # orig[2]
    /\ orig[1].junction /\ ~orig[2].junction
    /\ orig[1].src # orig[1].dst
    /\ records = orig

\* The mapping file is a JSON object whose "mapping" member is an array of
\* objects, and the current invocation has read it.
FileShaped ==
    /\ mapfile.t = "obj"
    /\ Cardinality(FieldAt(mapfile.v, "mapping")) = 1
    /\ \A i \in FieldAt(mapfile.v, "mapping") : mapfile.v[i].val.t = "arr"
    /\ \A k \in DOMAIN FileRecords : FileRecords[k].t = "obj"
FileRead == steps # <<>> /\ steps[1].op = "read" /\ FileShaped

RequiredFields == {"src", "dst", "force", "junction"}
UnknownField ==
    \/ \E i \in DOMAIN mapfile.v : mapfile.v[i].key # "mapping"
    \/ \E k \in DOMAIN FileRecords :
           \E i \in DOMAIN FileRecords[k].v : FileRecords[k].v[i].key \notin RequiredFields
LacksField ==
    \E k \in DOMAIN FileRecords :
        \E name \in RequiredFields : FieldAt(FileRecords[k].v, name) = {}

\* The read failed as a whole and the Link Creator was not called.
ReadFailed ==
    /\ steps = <<[op |-> "read", res |-> "panic"]>>
    /\ pc = "done" /\ outcome = "panic"
    /\ Calls = <<>>

\* C10 as stated: an unknown field or a missing required field fails the read.
C10_AsStated == (FileRead /\ (UnknownField \/ LacksField)) => ReadFailed

\* C10, amended: reading a mapping file in which any record lacks one of the
\* required fields src, dst, force, junction fails the whole read, and no record
\* of that file is passed to the Link Creator; a field of an unknown name, in a
\* record or in the top-level object, is ignored: the file is read as if the
\* field were not there.
C10_MissingFieldFails ==
    /\ (FileRead /\ LacksField) => ReadFailed
    /\ (FileRead /\ UnknownField /\ ~LacksField) =>
           /\ steps[1].res = "ok"
           /\ Len(records) = Len(FileRecords)
           /\ \A k \in DOMAIN records :
                  \A name \in RequiredFields : records[k][name] = FileField(k, name)

\* A file of two records, the second without its junction field: the read fails
\* and the first record is not replayed.
C10_Witness ==
    /\ FileRead /\ LacksField /\ ~UnknownField
    /\ Len(FileRecords) = 2
    /\ MappingOk(FileRecords[1])
    /\ ReadFailed

\* C11: at every call of CreateLink, the first and the retry, the source exists.
C11_SourceExistsAtCreate ==
    \A i \in DOMAIN log :
        \A k \in DOMAIN log[i].calls :
            log[i].calls[k].op = "CreateLink" => log[i].calls[k].srcExists

\* The place of the first CreateLink among the calls of e, 0 when there is none.
FirstCreate(e) ==
    IF HasCall(e, "CreateLink")
    THEN CHOOSE k \in DOMAIN e.calls :
             /\ e.calls[k].op = "CreateLink"
             /\ \A j \in 1..(k - 1) : e.calls[j].op # "CreateLink"
    ELSE 0
CreateCount(e) == Cardinality({k \in DOMAIN e.calls : e.calls[k].op = "CreateLink"})
FirstCreateFailed(e) == FirstCreate(e) > 0 /\ ~e.calls[FirstCreate(e)].ok

\* Without force a failed CreateLink is the last call and link fails; CreateLink
\* is called at most twice with force and at most once without.
FailsAtOnce(e) ==
    /\ (~e.force /\ FirstCreateFailed(e))
           => (Len(e.calls) = FirstCreate(e) /\ e.res = "LinkFailed")
    /\ CreateCount(e) <= IF e.force THEN 2 ELSE 1

\* The retry as the claim has it: the Forced Remover, then CreateLink once more,
\* whose result is the result of link.
RetriesOnce(e) ==
    /\ Len(e.calls) = FirstCreate(e) + 2
    /\ e.calls[FirstCreate(e) + 1].op = "rm_rf"
    /\ e.calls[FirstCreate(e) + 2].op = "CreateLink"
    /\ e.res = IF e.calls[FirstCreate(e) + 2].ok THEN "ok" ELSE "LinkFailed"

\* C12 as stated.
C12_AsStated ==
    \A i \in DOMAIN log :
        /\ FailsAtOnce(log[i])
        /\ (log[i].force /\ FirstCreateFailed(log[i])) => RetriesOnce(log[i])

\* C12, amended: when CreateLink fails and force is true, link re-invokes Forced
\* Remover on destination; if Forced Remover succeeds link retries CreateLink
\* exactly once, and a failure of that second attempt makes link fail; if Forced
\* Remover fails link fails without a second attempt.  When force is false a
\* CreateLink failure makes link fail at once with no Forced Remover call and no
\* retry.  Hence CreateLink is invoked at most twice with force and at most once
\* without.
C12_RetryProtocol ==
    \A i \in DOMAIN log :
        /\ FailsAtOnce(log[i])
        /\ (log[i].force /\ FirstCreateFailed(log[i])) =>
               /\ Len(log[i].calls) > FirstCreate(log[i])
               /\ log[i].calls[FirstCreate(log[i]) + 1].op = "rm_rf"
               /\ IF log[i].calls[FirstCreate(log[i]) + 1].ok
                  THEN RetriesOnce(log[i])
                  ELSE /\ Len(log[i].calls) = FirstCreate(log[i]) + 1
                       /\ log[i].res = "LinkFailed"

\* A forced link whose first CreateLink failed and whose retry, after the Forced
\* Remover, succeeded; and one whose retry failed too.
C12_Witness ==
    \E i, j \in DOMAIN log :
        /\ log[i].force /\ FirstCreateFailed(log[i]) /\ RetriesOnce(log[i])
        /\ log[i].res = "ok"
        /\ log[j].force /\ FirstCreateFailed(log[j]) /\ RetriesOnce(log[j])
        /\ log[j].res = "LinkFailed"

\* The destination exists, or its probe failed and force makes it count as
\* existing.
ForcedClear(e) ==
    /\ e.force /\ exists(e.before, e.src)
    /\ try_exists(e.before, e.dst) # "false"

\* C13: with force and a destination that exists or is assumed to, the Forced
\* Remover is called before CreateLink, and when it fails link returns the
\* CleanupFailed error, which the top level prints, and CreateLink is not called.
C13_CleanupFailedReturned ==
    \A i \in DOMAIN log :
        ForcedClear(log[i]) =>
            /\ log[i].calls # <<>> /\ log[i].calls[1].op = "rm_rf"
            /\ ~log[i].calls[1].ok =>
                   /\ log[i].res = "CleanupFailed"
                   /\ ~HasCall(log[i], "CreateLink")
                   /\ (log[i].run = run /\ pc = "done") => outcome = "CleanupFailed"

\* What the claim says of a call e whose probe of destination failed.
ProbeErrorHandled(e) ==
    IF ~e.force
    THEN e.res = "ProbeFailed" /\ e.after = e.before /\ e.calls = <<>>
    ELSE /\ e.calls # <<>> /\ e.calls[1].op = "rm_rf"
         /\ Len(e.calls) >= 2 /\ e.calls[2].op = "CreateLink"

\* C14 as stated.
C14_AsStated ==
    \A i \in DOMAIN log :
        Stat(log[i].before, log[i].dst).err \notin {"ok", "ENOENT"}
            => ProbeErrorHandled(log[i])

\* C14, amended: if source exists and probing the existence of destination
\* itself errors, then with force=false link fails with ProbeFailed and changes
\* nothing on the filesystem, and with force=true the destination is treated as
\* existing, so Forced Remover is invoked on it; link then proceeds to CreateLink
\* if Forced Remover succeeded, and does not call CreateLink if it failed.
C14_ProbeError ==
    \A i \in DOMAIN log :
        (exists(log[i].before, log[i].src)
            /\ Stat(log[i].before, log[i].dst).err \notin {"ok", "ENOENT"}) =>
            IF ~log[i].force
            THEN /\ log[i].res = "ProbeFailed"
                 /\ log[i].after = log[i].before
                 /\ log[i].calls = <<>>
            ELSE /\ log[i].calls # <<>> /\ log[i].calls[1].op = "rm_rf"
                 /\ IF log[i].calls[1].ok
                    THEN Len(log[i].calls) >= 2 /\ log[i].calls[2].op = "CreateLink"
                    ELSE ~HasCall(log[i], "CreateLink")

\* Both cases in one replay: a probe error with force, cleared and followed by
\* CreateLink, then a probe error without force, refused.
C14_Witness ==
    \E i, j \in DOMAIN log :
        /\ log[i].force /\ try_exists(log[i].before, log[i].dst) = "err"
        /\ Len(log[i].calls) >= 2
        /\ log[i].calls[1].op = "rm_rf" /\ log[i].calls[1].ok
        /\ log[i].calls[2].op = "CreateLink"
        /\ ~log[j].force /\ try_exists(log[j].before, log[j].dst) = "err"
        /\ log[j].res = "ProbeFailed"

\* The move step of a move-and-link invocation has just returned: fs0 is the
\* filesystem it was called on, fs the one it left.
MoveReturned == mode = "move" /\ run = 1 /\ Len(steps) = 1 /\ steps[1].op = "move"

\* The children of the directory p names, with their names.
ChildrenOf(f, p) == TreeAt(f, Stat(f, p).at)

\* Source is a directory and destination an existing directory that is not empty.
IntoNonEmpty ==
    /\ is_dir(fs0, args.src)
    /\ is_dir(fs0, args.dst) /\ read_dir(fs0, args.dst) # {}

\* C15: a directory moved into an existing non-empty directory: without force
\* the move fails with DestinationNotEmpty and changes nothing; with force a
\* successful move leaves destination holding exactly the former children of
\* source.
C15_NonEmptyDestination ==
    (MoveReturned /\ IntoNonEmpty) =>
        IF ~args.force
        THEN steps[1].res = "DestinationNotEmpty" /\ fs = fs0
        ELSE steps[1].res = "ok" =>
                 /\ is_dir(fs, args.dst)
                 /\ ChildrenOf(fs, args.dst) = ChildrenOf(fs0, args.src)

\* The entries at destination and under it: the entry the path names, and the
\* tree of the directory it leads to.
AtOrUnder(f, p) ==
    (IF Lstat(f, p).err = "ok" THEN {Lstat(f, p).at} ELSE {})
        \cup (IF Stat(f, p).err = "ok" THEN Under(f, Stat(f, p).at) ELSE {})

\* C18: a move without force, of a regular file or a directory, leaves every
\* entry that was at or under destination in place with its content.
C18_DestinationKept ==
    (MoveReturned /\ ~args.force /\ (is_file(fs0, args.src) \/ is_dir(fs0, args.src))) =>
        \A q \in AtOrUnder(fs0, args.dst) : q \in DOMAIN fs /\ fs[q] = fs0[q]

\* C19: a move-and-link invocation whose source does not exist ends with an
\* error after its move step, with the filesystem as it was.
C19_MissingSourceNoChange ==
    (mode = "move" /\ run = 1 /\ ~exists(fs0, args.src)) =>
        /\ fs = fs0
        /\ mapfile = mapfile0
        /\ log = <<>>
        /\ pc = "done" =>
               /\ Len(steps) = 1 /\ steps[1].op = "move"
               /\ outcome \notin {"ok", "panic"}

\* The invocation wrote the mapping file as its last step.
Generated == steps # <<>> /\ steps[Len(steps)].op = "gen"

\* The link request of the first invocation, as main made it.
RequestMade(src, dst) ==
    /\ Len(log) >= 1
    /\ log[1].run = 1 /\ log[1].res = "ok"
    /\ log[1].src = src /\ log[1].dst = dst
    /\ log[1].force = args.force /\ log[1].junction = args.junction

\* The mapping file holds one record and nothing else, with these four fields.
OneRecord(src, dst) ==
    /\ FileShaped
    /\ Len(mapfile.v) = 1
    /\ Len(FileRecords) = 1
    /\ Len(FileRecords[1].v) = 4
    /\ MappingOk(FileRecords[1])
    /\ FileField(1, "src") = PathToStr(src)
    /\ FileField(1, "dst") = PathToStr(dst)
    /\ FileField(1, "force") = args.force
    /\ FileField(1, "junction") = args.junction

\* C16: the record written is the link request just executed, (source,
\* destination) in direct mode and (move destination, original source) in
\* move-and-link mode, with force and junction as given; it is the only record
\* of the file, whatever the file held before; and the replay of the file calls
\* the Link Creator once, with the same four arguments.
C16_RecordIsRequest ==
    /\ (run = 1 /\ mode = "direct" /\ Generated)
           => (RequestMade(args.src, args.dst) /\ OneRecord(args.src, args.dst))
    /\ (run = 1 /\ mode = "move" /\ Generated)
           => (RequestMade(args.dst, args.src) /\ OneRecord(args.dst, args.src))
    /\ (run = 2 /\ mode \in {"direct", "move"} /\ pc = "done") =>
           /\ steps[1] = [op |-> "read", res |-> "ok"]
           /\ Len(Calls) = 1
           /\ Calls[1].src = log[1].src /\ Calls[1].dst = log[1].dst
           /\ Calls[1].force = log[1].force /\ Calls[1].junction = log[1].junction
           /\ Calls[1].before = fsEnd1

\* A move-and-link invocation that wrote its record over a file that held
\* something else, and the replay of that record.
C16_Witness ==
    /\ run = 2 /\ mode = "move" /\ pc = "done"
    /\ mapfile0 = Junk
    /\ args.src # args.dst
    /\ OneRecord(args.dst, args.src)
    /\ Len(Calls) = 1
    /\ Calls[1].src = args.dst /\ Calls[1].dst = args.src

\* C17: a link without force that returns an error leaves the filesystem as it
\* was; a destination that was an empty directory is still there.
C17_FailedLinkNoChange ==
    \A i \in DOMAIN log :
        (~log[i].force /\ log[i].res # "ok") => log[i].after = log[i].before

\* C20: whenever the Forced Remover returns success, with or without the
\* fallback, nothing is left at the path; and the fallback runs only after the
\* primary removal failed.  Said of every call link made of it first.
C20_RemovedMeansGone ==
    \A i \in DOMAIN log :
        (log[i].calls # <<>> /\ log[i].calls[1].op = "rm_rf") =>
            /\ rm_rf(log[i].before, log[i].dst, platform).err = "ok"
                   => Lstat(rm_rf(log[i].before, log[i].dst, platform).fs,
                            log[i].dst).err # "ok"
            /\ rm_rf(log[i].before, log[i].dst, platform).fallback
                   => rm_primary(log[i].before, log[i].dst).err # "ok"

====
